---- MODULE Spec2Model ----
(***************************************************************************)
(* Identity resolution of backend-core/src/events/identification.ts:       *)
(* getEventTenantId / getUniqueTenantId (the cache-aside derivation of the *)
(* globally unique tenant id) and the group identification entry points.   *)
(*                                                                         *)
(* Strings are sequences of string tokens, so that template literals are   *)
(* real concatenations: `${newid}_${tenantId}` is <<newid, "_", tenantId>>.*)
(* The empty sequence is the JavaScript falsy value (undefined / "").      *)
(***************************************************************************)
EXTENDS Integers, Sequences, FiniteSets, TLC

\* ---------------------------------------------------------------- bounds
\* Total number of entry-point calls started in one behaviour.
MaxCalls == 3

\* ---------------------------------------------------------------- domains
Callers == {"c1", "c2"}
Procs == {"p1", "p2", "p3"}
Deployments == {"d1", "d2"}
Tenants == {"t1", "t2"}

\* p1 and p2 are two processes of one deployment (one ConfigStore); p3 is a
\* process of an independent deployment with its own store.
DeploymentOf(p) == IF p = "p3" THEN "d2" ELSE "d1"

\* The first deployment hosts both tenants; the second one reuses the raw
\* tenant id t1.
TenantsOf(d) == IF d = "d1" THEN Tenants ELSE {"t1"}

Unset == << >>

VARIABLES
  env,            \* env[p].SELF_HOSTED: the environment of process p
  db,             \* db[d][t]: config.uniqueTenantId of tenant t's persisted settings document
  cache,          \* cache[p][t]: entry CacheKeys.UNIQUE_TENANT_ID in tenant t's scope, process p
  ids,            \* number of ids hashing.newid() has handed out
  calls,          \* number of calls started
  pc,             \* pc[c]: position of caller c
  proc,           \* proc[c]: the process caller c runs in
  tenantId,       \* tenantId[c]: the tenantId argument
  ctx,            \* ctx[c]: the tenant in context inside the doInTenant callback
  config,         \* config[c]: config.config.uniqueTenantId of the local document copy
  uniqueTenantId, \* uniqueTenantId[c]: the local variable of line 259
  fetched,        \* fetched[c]: the value the fetch function handed to withCache
  ret,            \* ret[c]: the value getEventTenantId returned
  err,            \* err[c]: the error getEventTenantId rejected with
  io,             \* io[c]: collaborator calls made by the current call
  wrote,          \* wrote[d][t]: the caller whose db.put reached the document last
  prev,           \* prev[c]: result of c's previous call, while nothing else happened since
  op,             \* op[c]: the entry point caller c is in
  account,        \* account[c]: the account argument
  timestamp,      \* timestamp[c]: the timestamp argument
  id,             \* id[c]: the local constant id of the group functions
  group,          \* group[c]: the group record built
  sink,           \* sink[c]: the processors calls the current call has made, in order
  identityContext,\* identityContext[c]: what identityCtx.getIdentity() returns to c
  user,           \* user[c]: the user argument
  identity,       \* identity[c]: the identity record built
  hist            \* what has happened to each document and each cache key so far

vars == <<env, db, cache, ids, calls, pc, proc, tenantId, ctx, config,
          uniqueTenantId, fetched, ret, err, io, wrote, prev,
          op, account, timestamp, id, group, sink, identityContext, user, identity,
          hist>>

locals == <<proc, tenantId, ctx>>

\* What only the identify entry points use.
identifyVars == <<account, timestamp, id, group, sink>>

\* What only getCurrentIdentity, identifyUser and identifyAccount use.
identityVars == <<identityContext, user, identity>>

NoCaller == "-"
NoPrev == [proc |-> "-", tenantId |-> "-", ret |-> Unset, next |-> FALSE]

\* An absent account argument, and the accounts the callers pass.
NoAccount == [accountId |-> Unset, tenantId |-> "-", hosting |-> "-", profession |-> Unset,
              size |-> Unset, verified |-> "-", budibaseUserId |-> Unset,
              authType |-> "-", providerType |-> Unset]
Accounts ==
  { [NoAccount EXCEPT !.accountId = <<"a1">>, !.tenantId = "t1", !.hosting = "cloud",
                      !.profession = <<"teacher">>, !.size = <<"10">>, !.verified = "true",
                      !.authType = "password"],
    [NoAccount EXCEPT !.accountId = <<"a2">>, !.tenantId = "t1", !.hosting = "self",
                      !.verified = "false", !.authType = "password"] }

\* The accounts given to identifyUser and identifyAccount: with and without a
\* linked user, verified or not, signed in with a password or through SSO.
UserIds == { <<"u1">>, <<"u2">> }
LinkedAccounts ==
  { [NoAccount EXCEPT !.accountId = <<"a3">>, !.tenantId = "t1", !.hosting = "cloud",
                      !.verified = "true", !.budibaseUserId = <<"u1">>,
                      !.authType = "password"],
    [NoAccount EXCEPT !.accountId = <<"a4">>, !.tenantId = "t1", !.hosting = "cloud",
                      !.verified = "false", !.budibaseUserId = <<"u1">>,
                      !.authType = "sso", !.providerType = <<"google">>],
    [NoAccount EXCEPT !.accountId = <<"a5">>, !.tenantId = "t1", !.hosting = "self",
                      !.verified = "true", !.budibaseUserId = <<"u1">>,
                      !.authType = "password"] }
IdentityAccounts == Accounts \cup LinkedAccounts

\* The values of IdentityType, and a kind that is none of them.
IdentityTypes == {"user", "tenant", "installation"}

Services == {"worker", "account-portal"}
InstallIds == { <<"i1">>, <<"i2">> }
Timestamps == {"-", "1000"}

\* No identity context, no user argument, no identity record.
NoContext == [type |-> "-", _id |-> Unset, account |-> NoAccount]
NoUser == [_id |-> Unset, tenantId |-> "-", builder |-> "-", admin |-> "-",
           providerType |-> Unset]
NoIdentity == [id |-> Unset, type |-> "-", hosting |-> "-", installationId |-> Unset,
               tenantId |-> Unset, verified |-> "-", accountHolder |-> "-",
               providerType |-> Unset, builder |-> "-", admin |-> "-"]

\* What identityCtx.getIdentity() can return.
IdentityContexts ==
  { [NoContext EXCEPT !.type = k, !._id = <<"u1">>] : k \in {"installation", "tenant", "device"} }
    \cup { [type |-> "user", _id |-> u, account |-> acc] :
              u \in UserIds, acc \in Accounts \cup {NoAccount} }

\* The user documents given to identifyUser (tenantId is filled in per call).
Users ==
  { [NoUser EXCEPT !._id = u, !.builder = "true"] : u \in UserIds }
    \cup { [NoUser EXCEPT !._id = u, !.admin = "true", !.providerType = <<"google">>] :
              u \in UserIds }

\* Nothing has happened yet. Of a document: the ids minted for it, the db.put
\* calls made and those that succeeded, the values it has held, and whether
\* two getUniqueTenantId calls for it were ever in progress at once. Of a
\* cache key: whether the last call for it that ended failed.
NoHist ==
  [doc |-> [d \in Deployments |-> [t \in Tenants |->
              [mints |-> 0, puts |-> 0, written |-> 0, was |-> {}, overlap |-> FALSE]]],
   failed |-> [p \in Procs |-> [t \in Tenants |-> FALSE]]]

NoGroup == [id |-> Unset, type |-> "-", hosting |-> "-", version |-> Unset,
            installationId |-> Unset, profession |-> Unset, companySize |-> Unset]

\* ---------------------------------------------------------------- collaborators
\* hashing.newid(): a fresh random identifier on every call.
newid(n) == ToString(n + 1)

\* context.doInTenant(tenantId, fn): fn runs with tenantId as the tenant in
\* context, whatever the caller's own tenant is.
doInTenant(t, a) == t

\* The cache key of withCache(CacheKeys.UNIQUE_TENANT_ID, ...) is scoped to the
\* tenant in context; the cache is per process.
cacheGet(p, t) == cache[p][t]
cacheStore(p, t, v) == [cache EXCEPT ![p][t] = v]

\* dbUtils.getScopedFullConfig(context.getGlobalDB(), {type: SETTINGS}): the
\* settings document of the tenant in context; db.put replaces it as a whole.
getScopedFullConfig(d, t) == db[d][t]
dbPut(d, t, v) == [db EXCEPT ![d][t] = v]

\* installation.getInstall(): the installation record of the deployment.
getInstall(d) == [installId |-> <<"install", d>>]

\* pkg.version of ../../package.json
pkgVersion == <<"version">>

\* processors.identifyGroup / processors.identify: the call is recorded.
processorsCall(log, name, payload, ts) ==
  Append(log, [call |-> name, payload |-> payload, timestamp |-> ts])

\* ---------------------------------------------------------------- helpers
\* prev[c] is the result of c's last completed getUniqueTenantId call, kept
\* only while no other caller has taken a step and no cache entry was lost;
\* prev[c].next says that c is now in the call that follows it.
Only(c) == [x \in Callers |-> IF x = c THEN prev[x] ELSE NoPrev]

Completed(c, v) ==
  [x \in Callers |->
     IF x # c THEN NoPrev
     ELSE IF prev[c].next THEN prev[c]
     ELSE [proc |-> proc[c], tenantId |-> tenantId[c], ret |-> v, next |-> FALSE]]

SELF_HOSTED(p) == env[p].SELF_HOSTED

getHostingFromEnv(p) == IF env[p].SELF_HOSTED THEN "self" ELSE "cloud"

isAccountPortal(p) == env[p].SERVICE = "account-portal"

\* The account portal asks the registry like every other service.
getInstallationId_noPortal(p) == getInstall(DeploymentOf(p)).installId

getInstallationId(p) ==
  IF isAccountPortal(p) THEN <<"account-portal">>
  ELSE getInstall(DeploymentOf(p)).installId

\* The distinct id lacks the leading "$".
formatDistinctId_noDollar(i, type) ==
  IF type = "installation" \/ type = "tenant" THEN <<type, "_">> \o i ELSE i

formatDistinctId(i, type) ==
  IF type = "installation" \/ type = "tenant" THEN <<"$", type, "_">> \o i ELSE i

\* The random id and the tenant id are swapped.
mintUniqueTenantId_swapped(n, t) == <<t, "_", newid(n)>>

\* The id is derived from the tenant id alone.
mintUniqueTenantId_fixed(n, t) == <<"0", "_", t>>

\* `${hashing.newid()}_${tenantId}`
mintUniqueTenantId(n, t) == <<newid(n), "_", t>>

InitState ==
  /\ db = [d \in Deployments |-> [t \in Tenants |-> Unset]]
  /\ cache = [p \in Procs |-> [t \in Tenants |-> Unset]]
  /\ ids = 0
  /\ calls = 0
  /\ pc = [c \in Callers |-> "idle"]
  /\ proc = [c \in Callers |-> "-"]
  /\ tenantId = [c \in Callers |-> "-"]
  /\ ctx = [c \in Callers |-> "-"]
  /\ config = [c \in Callers |-> Unset]
  /\ uniqueTenantId = [c \in Callers |-> Unset]
  /\ fetched = [c \in Callers |-> Unset]
  /\ ret = [c \in Callers |-> Unset]
  /\ err = [c \in Callers |-> "-"]
  /\ io = [c \in Callers |-> {}]
  /\ wrote = [d \in Deployments |-> [t \in Tenants |-> NoCaller]]
  /\ prev = [c \in Callers |-> NoPrev]
  /\ op = [c \in Callers |-> "-"]
  /\ account = [c \in Callers |-> NoAccount]
  /\ timestamp = [c \in Callers |-> "-"]
  /\ id = [c \in Callers |-> Unset]
  /\ group = [c \in Callers |-> NoGroup]
  /\ sink = [c \in Callers |-> << >>]
  /\ identityContext = [c \in Callers |-> NoContext]
  /\ user = [c \in Callers |-> NoUser]
  /\ identity = [c \in Callers |-> NoIdentity]
  /\ hist = NoHist

\* The processes of one deployment are configured with the same hosting mode.
SameHosting(e) ==
  \A p, q \in Procs : DeploymentOf(p) = DeploymentOf(q) => e[p].SELF_HOSTED = e[q].SELF_HOSTED

\* The tenant id derivation does not read SERVICE.
Init ==
  /\ env \in [Procs -> [SELF_HOSTED : BOOLEAN, SERVICE : {"worker"}]]
  /\ SameHosting(env)
  /\ InitState

InitIdentify ==
  /\ env \in [Procs -> [SELF_HOSTED : BOOLEAN, SERVICE : Services]]
  /\ SameHosting(env)
  /\ InitState

\* One environment for every process, self-hosted or cloud, account portal or not.
InitIdentity ==
  /\ \E e \in [SELF_HOSTED : BOOLEAN, SERVICE : Services] : env = [p \in Procs |-> e]
  /\ InitState

\* ---------------------------------------------------------------- getEventTenantId
\* The hosting test is missing: the unique id is derived in the cloud too.
getEventTenantId_always(c, p, t, a) ==
  /\ proc' = [proc EXCEPT ![c] = p]
  /\ tenantId' = [tenantId EXCEPT ![c] = t]
  /\ ctx' = [ctx EXCEPT ![c] = doInTenant(t, a)]
  /\ pc' = [pc EXCEPT ![c] = "withCache"]
  /\ ret' = ret
  /\ prev' = [x \in Callers |->
                IF x = c /\ prev[c].proc = p /\ prev[c].tenantId = t
                  THEN [prev[c] EXCEPT !.next = TRUE] ELSE NoPrev]

\* getUniqueTenantId does not enter the tenant: the caller's own tenant
\* stays in context.
getEventTenantId_ambient(c, p, t, a) ==
  /\ proc' = [proc EXCEPT ![c] = p]
  /\ tenantId' = [tenantId EXCEPT ![c] = t]
  /\ IF SELF_HOSTED(p)
       THEN /\ ctx' = [ctx EXCEPT ![c] = a]
            /\ pc' = [pc EXCEPT ![c] = "withCache"]
            /\ ret' = ret
            /\ prev' = [x \in Callers |->
                          IF x = c /\ prev[c].proc = p /\ prev[c].tenantId = t
                            THEN [prev[c] EXCEPT !.next = TRUE] ELSE NoPrev]
       ELSE /\ ctx' = ctx
            /\ pc' = [pc EXCEPT ![c] = "done"]
            /\ ret' = [ret EXCEPT ![c] = <<t>>]
            /\ prev' = [x \in Callers |-> NoPrev]

\* getUniqueTenantId runs the fetch function without withCache.
getEventTenantId_noCache(c, p, t, a) ==
  /\ proc' = [proc EXCEPT ![c] = p]
  /\ tenantId' = [tenantId EXCEPT ![c] = t]
  /\ IF SELF_HOSTED(p)
       THEN /\ ctx' = [ctx EXCEPT ![c] = doInTenant(t, a)]
            /\ pc' = [pc EXCEPT ![c] = "fetch"]
            /\ ret' = ret
            /\ prev' = [x \in Callers |->
                          IF x = c /\ prev[c].proc = p /\ prev[c].tenantId = t
                            THEN [prev[c] EXCEPT !.next = TRUE] ELSE NoPrev]
       ELSE /\ ctx' = ctx
            /\ pc' = [pc EXCEPT ![c] = "done"]
            /\ ret' = [ret EXCEPT ![c] = <<t>>]
            /\ prev' = [x \in Callers |-> NoPrev]

\* getEventTenantId(t) is entered in process p by a caller whose own tenant
\* is a. Self hosted, getUniqueTenantId enters the tenant and withCache
\* issues the lookup of the key.
getEventTenantId(c, p, t, a) ==
  /\ proc' = [proc EXCEPT ![c] = p]
  /\ tenantId' = [tenantId EXCEPT ![c] = t]
  /\ IF SELF_HOSTED(p)
       THEN /\ ctx' = [ctx EXCEPT ![c] = doInTenant(t, a)]
            /\ pc' = [pc EXCEPT ![c] = "withCache"]
            /\ ret' = ret
            /\ prev' = [x \in Callers |->
                          IF x = c /\ prev[c].proc = p /\ prev[c].tenantId = t
                            THEN [prev[c] EXCEPT !.next = TRUE] ELSE NoPrev]
       ELSE \* tenant id's in the cloud are already unique
            /\ ctx' = ctx
            /\ pc' = [pc EXCEPT ![c] = "done"]
            /\ ret' = [ret EXCEPT ![c] = <<t>>]
            /\ prev' = [x \in Callers |-> NoPrev]

\* A direct call of getEventTenantId(t).
callGetEventTenantId(c, p, t, a) ==
  /\ pc[c] = "idle"
  /\ calls < MaxCalls
  /\ calls' = calls + 1
  /\ op' = [op EXCEPT ![c] = "getEventTenantId"]
  /\ getEventTenantId(c, p, t, a)
  /\ UNCHANGED <<identityVars, env, db, cache, ids, config, uniqueTenantId, fetched, err, io, wrote,
                 identifyVars>>

\* withCache: the awaited lookup of the key; a hit is returned as it is, a
\* miss runs the fetch function.
withCache(c) ==
  /\ pc[c] = "withCache"
  /\ io' = [io EXCEPT ![c] = @ \cup {"cache.get"}]
  /\ IF cacheGet(proc[c], ctx[c]) # Unset
       THEN /\ ret' = [ret EXCEPT ![c] = cacheGet(proc[c], ctx[c])]
            /\ pc' = [pc EXCEPT ![c] = "done"]
            /\ prev' = Completed(c, cacheGet(proc[c], ctx[c]))
       ELSE /\ pc' = [pc EXCEPT ![c] = "fetch"]
            /\ prev' = Only(c)
            /\ UNCHANGED ret
  /\ UNCHANGED <<identityVars, env, db, cache, ids, calls, locals, config, uniqueTenantId, fetched, err,
                 wrote, op, identifyVars>>

\* The check of config.config.uniqueTenantId is missing: an id is minted and
\* written on every cache miss.
fetchConfig_alwaysMint(c) ==
  /\ pc[c] = "fetch"
  /\ io' = [io EXCEPT ![c] = @ \cup {"db.get"}]
  /\ uniqueTenantId' = [uniqueTenantId EXCEPT ![c] = mintUniqueTenantId(ids, tenantId[c])]
  /\ config' = [config EXCEPT ![c] = mintUniqueTenantId(ids, tenantId[c])]
  /\ ids' = ids + 1
  /\ pc' = [pc EXCEPT ![c] = "put"]
  /\ prev' = Only(c)
  /\ UNCHANGED <<identityVars, env, db, cache, calls, locals, fetched, ret, err, wrote, op, identifyVars>>

\* The fetch function up to its second await: the document is read; a set
\* uniqueTenantId is returned, an unset one is minted and db.put is issued.
fetchConfig(c) ==
  /\ pc[c] = "fetch"
  /\ io' = [io EXCEPT ![c] = @ \cup {"db.get"}]
  /\ LET read == getScopedFullConfig(DeploymentOf(proc[c]), ctx[c]) IN
       IF read # Unset
         THEN /\ config' = [config EXCEPT ![c] = read]
              /\ fetched' = [fetched EXCEPT ![c] = read]
              /\ pc' = [pc EXCEPT ![c] = "store"]
              /\ UNCHANGED <<uniqueTenantId, ids>>
         ELSE /\ uniqueTenantId' = [uniqueTenantId EXCEPT ![c] = mintUniqueTenantId(ids, tenantId[c])]
              /\ config' = [config EXCEPT ![c] = mintUniqueTenantId(ids, tenantId[c])]
              /\ ids' = ids + 1
              /\ pc' = [pc EXCEPT ![c] = "put"]
              /\ UNCHANGED fetched
  /\ prev' = Only(c)
  /\ UNCHANGED <<identityVars, env, db, cache, calls, locals, ret, err, wrote, op, identifyVars>>

\* The read of the document fails: the error leaves withCache, doInTenant,
\* getUniqueTenantId and getEventTenantId as it is.
fetchConfigFails(c) ==
  /\ pc[c] = "fetch"
  /\ io' = [io EXCEPT ![c] = @ \cup {"db.get"}]
  /\ err' = [err EXCEPT ![c] = "db.get"]
  /\ pc' = [pc EXCEPT ![c] = "failed"]
  /\ prev' = Only(c)
  /\ UNCHANGED <<identityVars, env, db, cache, ids, calls, locals, config, uniqueTenantId, fetched, ret,
                 wrote, op, identifyVars>>

\* The minted id is returned without the document being written.
putConfig_notPersisted(c) ==
  /\ pc[c] = "put"
  /\ io' = [io EXCEPT ![c] = @ \cup {"db.put"}]
  /\ fetched' = [fetched EXCEPT ![c] = uniqueTenantId[c]]
  /\ pc' = [pc EXCEPT ![c] = "store"]
  /\ prev' = Only(c)
  /\ UNCHANGED <<identityVars, env, db, cache, ids, calls, locals, config, uniqueTenantId, ret, err,
                 wrote, op, identifyVars>>

\* await db.put(config); return uniqueTenantId
putConfig(c) ==
  /\ pc[c] = "put"
  /\ io' = [io EXCEPT ![c] = @ \cup {"db.put"}]
  /\ db' = dbPut(DeploymentOf(proc[c]), ctx[c], config[c])
  /\ wrote' = [wrote EXCEPT ![DeploymentOf(proc[c])][ctx[c]] = c]
  /\ fetched' = [fetched EXCEPT ![c] = uniqueTenantId[c]]
  /\ pc' = [pc EXCEPT ![c] = "store"]
  /\ prev' = Only(c)
  /\ UNCHANGED <<identityVars, env, cache, ids, calls, locals, config, uniqueTenantId, ret, err, op,
                 identifyVars>>

\* The rejection of db.put is caught and the minted id is returned.
putConfigFails_swallowed(c) ==
  /\ pc[c] = "put"
  /\ io' = [io EXCEPT ![c] = @ \cup {"db.put"}]
  /\ err' = [err EXCEPT ![c] = "db.put"]
  /\ fetched' = [fetched EXCEPT ![c] = uniqueTenantId[c]]
  /\ pc' = [pc EXCEPT ![c] = "store"]
  /\ prev' = Only(c)
  /\ UNCHANGED <<identityVars, env, db, cache, ids, calls, locals, config, uniqueTenantId, ret,
                 wrote, op, identifyVars>>

\* db.put rejects: nothing is written and the error propagates.
putConfigFails(c) ==
  /\ pc[c] = "put"
  /\ io' = [io EXCEPT ![c] = @ \cup {"db.put"}]
  /\ err' = [err EXCEPT ![c] = "db.put"]
  /\ pc' = [pc EXCEPT ![c] = "failed"]
  /\ prev' = Only(c)
  /\ UNCHANGED <<identityVars, env, db, cache, ids, calls, locals, config, uniqueTenantId, fetched, ret,
                 wrote, op, identifyVars>>

\* withCache stores the fetched value under the key and returns it.
withCacheStore(c) ==
  /\ pc[c] = "store"
  /\ io' = [io EXCEPT ![c] = @ \cup {"cache.store"}]
  /\ cache' = cacheStore(proc[c], ctx[c], fetched[c])
  /\ ret' = [ret EXCEPT ![c] = fetched[c]]
  /\ pc' = [pc EXCEPT ![c] = "done"]
  /\ prev' = Completed(c, fetched[c])
  /\ UNCHANGED <<identityVars, env, db, ids, calls, locals, config, uniqueTenantId, fetched, err, wrote,
                 op, identifyVars>>

\* ---------------------------------------------------------------- group identification
\* identifyInstallationGroup(installId, timestamp) up to its first await.
identifyInstallationGroup(c, p, installId, ts) ==
  /\ pc[c] = "idle"
  /\ calls < MaxCalls
  /\ calls' = calls + 1
  /\ op' = [op EXCEPT ![c] = "identifyInstallationGroup"]
  /\ proc' = [proc EXCEPT ![c] = p]
  /\ timestamp' = [timestamp EXCEPT ![c] = ts]
  /\ id' = [id EXCEPT ![c] = installId]
  /\ group' = [group EXCEPT ![c] =
                 [NoGroup EXCEPT !.id = installId, !.type = "installation",
                                 !.hosting = getHostingFromEnv(p), !.version = pkgVersion]]
  /\ pc' = [pc EXCEPT ![c] = "identifyGroup"]
  /\ prev' = [x \in Callers |-> NoPrev]
  /\ UNCHANGED <<identityVars, env, db, cache, ids, tenantId, ctx, config, uniqueTenantId, fetched, ret,
                 err, io, wrote, account, sink>>

\* identifyTenantGroup(tenantId, account, timestamp) up to its first await.
identifyTenantGroup(c, p, t, a, acc, ts) ==
  /\ pc[c] = "idle"
  /\ calls < MaxCalls
  /\ calls' = calls + 1
  /\ op' = [op EXCEPT ![c] = "identifyTenantGroup"]
  /\ account' = [account EXCEPT ![c] = acc]
  /\ timestamp' = [timestamp EXCEPT ![c] = ts]
  /\ getEventTenantId(c, p, t, a)
  /\ UNCHANGED <<identityVars, env, db, cache, ids, config, uniqueTenantId, fetched, err, io, wrote,
                 id, group, sink>>

\* identifyTenantGroup from the resolved tenant id to the identifyGroup call:
\* the installation id is resolved and the group record is built.
tenantGroup(c) ==
  /\ pc[c] = "done"
  /\ op[c] = "identifyTenantGroup"
  /\ id' = [id EXCEPT ![c] = ret[c]]
  /\ group' = [group EXCEPT ![c] =
                 [NoGroup EXCEPT
                    !.id = ret[c],
                    !.type = "tenant",
                    !.hosting = IF account[c] # NoAccount THEN account[c].hosting
                                ELSE getHostingFromEnv(proc[c]),
                    !.installationId = getInstallationId(proc[c]),
                    !.profession = IF account[c] # NoAccount THEN account[c].profession
                                   ELSE Unset,
                    !.companySize = IF account[c] # NoAccount THEN account[c].size
                                    ELSE Unset]]
  /\ pc' = [pc EXCEPT ![c] = "identifyGroup"]
  /\ prev' = Only(c)
  /\ UNCHANGED <<identityVars, env, db, cache, ids, calls, locals, config, uniqueTenantId, fetched, ret,
                 err, io, wrote, op, account, timestamp, sink>>

\* installation.getInstall() rejects.
tenantGroupInstallFails(c) ==
  /\ pc[c] = "done"
  /\ op[c] = "identifyTenantGroup"
  /\ ~isAccountPortal(proc[c])
  /\ err' = [err EXCEPT ![c] = "getInstall"]
  /\ pc' = [pc EXCEPT ![c] = "failed"]
  /\ prev' = Only(c)
  /\ UNCHANGED <<identityVars, env, db, cache, ids, calls, locals, config, uniqueTenantId, fetched, ret,
                 io, wrote, op, identifyVars>>

\* await identifyGroup(group, timestamp)
identifyGroup(c) ==
  /\ pc[c] = "identifyGroup"
  /\ sink' = [sink EXCEPT ![c] = processorsCall(@, "identifyGroup", group[c], timestamp[c])]
  /\ pc' = [pc EXCEPT ![c] = "identify"]
  /\ prev' = Only(c)
  /\ UNCHANGED <<identityVars, env, db, cache, ids, calls, locals, config, uniqueTenantId, fetched, ret,
                 err, io, wrote, op, account, timestamp, id, group>>

\* The rejection of identifyGroup is caught and identify is called all the same.
identifyGroupFails_continues(c) ==
  /\ pc[c] = "identifyGroup"
  /\ err' = [err EXCEPT ![c] = "identifyGroup"]
  /\ pc' = [pc EXCEPT ![c] = "identify"]
  /\ prev' = Only(c)
  /\ UNCHANGED <<identityVars, env, db, cache, ids, calls, locals, config, uniqueTenantId, fetched, ret,
                 io, wrote, op, identifyVars>>

\* processors.identifyGroup rejects.
identifyGroupFails(c) ==
  /\ pc[c] = "identifyGroup"
  /\ err' = [err EXCEPT ![c] = "identifyGroup"]
  /\ pc' = [pc EXCEPT ![c] = "failed"]
  /\ prev' = Only(c)
  /\ UNCHANGED <<identityVars, env, db, cache, ids, calls, locals, config, uniqueTenantId, fetched, ret,
                 io, wrote, op, identifyVars>>

\* The identity of the group is sent with the raw id.
identify_rawId(c) ==
  /\ pc[c] = "identify"
  /\ sink' = [sink EXCEPT ![c] = processorsCall(@, "identify", group[c], timestamp[c])]
  /\ pc' = [pc EXCEPT ![c] = "finished"]
  /\ prev' = Only(c)
  /\ UNCHANGED <<identityVars, env, db, cache, ids, calls, locals, config, uniqueTenantId, fetched, ret,
                 err, io, wrote, op, account, timestamp, id, group>>

\* await identify({ ...group, id: `$${type}_${id}` }, timestamp)
identify(c) ==
  /\ pc[c] = "identify"
  /\ sink' = [sink EXCEPT ![c] =
                processorsCall(@, "identify",
                               [group[c] EXCEPT !.id = <<"$", group[c].type, "_">> \o id[c]],
                               timestamp[c])]
  /\ pc' = [pc EXCEPT ![c] = "finished"]
  /\ prev' = Only(c)
  /\ UNCHANGED <<identityVars, env, db, cache, ids, calls, locals, config, uniqueTenantId, fetched, ret,
                 err, io, wrote, op, account, timestamp, id, group>>

identifyFails(c) ==
  /\ pc[c] = "identify"
  /\ err' = [err EXCEPT ![c] = "identify"]
  /\ pc' = [pc EXCEPT ![c] = "failed"]
  /\ prev' = Only(c)
  /\ UNCHANGED <<identityVars, env, db, cache, ids, calls, locals, config, uniqueTenantId, fetched, ret,
                 io, wrote, op, identifyVars>>

\* ---------------------------------------------------------------- identities
\* isCloudAccount(account) and isSSOAccount(account) of @budibase/types
isCloudAccount(acc) == acc.hosting = "cloud"
isSSOAccount(acc) == acc.authType = "sso"

\* x || false
orFalse(x) == IF x = "true" THEN "true" ELSE "false"

\* The registry lookup getInstallationId makes in process p, if any.
installLookup(p) == IF isAccountPortal(p) THEN {} ELSE {"getInstall"}

\* An absent identity context is taken for an installation.
identityType_installation(ictx) == IF ictx = NoContext THEN "installation" ELSE ictx.type

\* identityType of getCurrentIdentity: the type of the identity context, or
\* IdentityType.TENANT when there is none.
identityType(ictx) == IF ictx = NoContext THEN "tenant" ELSE ictx.type

\* A kind that is none of IdentityType is handled like a tenant.
getCurrentIdentity_unknownAsTenant(c, p, ictx, t) ==
  /\ pc[c] = "idle"
  /\ calls < MaxCalls
  /\ calls' = calls + 1
  /\ op' = [op EXCEPT ![c] = "getCurrentIdentity"]
  /\ identityContext' = [identityContext EXCEPT ![c] = ictx]
  /\ LET type == identityType(ictx)
     IN  CASE type # "user" ->
                /\ proc' = [proc EXCEPT ![c] = p]
                /\ tenantId' = [tenantId EXCEPT ![c] = t]
                /\ pc' = [pc EXCEPT ![c] = "getInstallationId"]
                /\ prev' = [x \in Callers |-> NoPrev]
                /\ UNCHANGED <<ctx, ret, err>>
           [] type = "user" ->
                /\ getEventTenantId(c, p, t, t)
                /\ UNCHANGED err
           [] OTHER ->
                /\ proc' = [proc EXCEPT ![c] = p]
                /\ err' = [err EXCEPT ![c] = "Unknown identity type"]
                /\ pc' = [pc EXCEPT ![c] = "failed"]
                /\ prev' = [x \in Callers |-> NoPrev]
                /\ UNCHANGED <<tenantId, ctx, ret>>
  /\ UNCHANGED <<env, db, cache, ids, config, uniqueTenantId, fetched, io, wrote,
                 identifyVars, user, identity>>

\* getCurrentIdentity() up to its first await; ictx is the identity context
\* and t the tenant id of the ambient context.
getCurrentIdentity(c, p, ictx, t) ==
  /\ pc[c] = "idle"
  /\ calls < MaxCalls
  /\ calls' = calls + 1
  /\ op' = [op EXCEPT ![c] = "getCurrentIdentity"]
  /\ identityContext' = [identityContext EXCEPT ![c] = ictx]
  /\ LET type == identityType(ictx)
     IN  CASE type \in {"installation", "tenant"} ->
                /\ proc' = [proc EXCEPT ![c] = p]
                /\ tenantId' = [tenantId EXCEPT ![c] = t]
                /\ pc' = [pc EXCEPT ![c] = "getInstallationId"]
                /\ prev' = [x \in Callers |-> NoPrev]
                /\ UNCHANGED <<ctx, ret, err>>
           [] type = "user" ->
                /\ getEventTenantId(c, p, t, t)
                /\ UNCHANGED err
           [] OTHER ->
                /\ proc' = [proc EXCEPT ![c] = p]
                /\ err' = [err EXCEPT ![c] = "Unknown identity type"]
                /\ pc' = [pc EXCEPT ![c] = "failed"]
                /\ prev' = [x \in Callers |-> NoPrev]
                /\ UNCHANGED <<tenantId, ctx, ret>>
  /\ UNCHANGED <<env, db, cache, ids, config, uniqueTenantId, fetched, io, wrote,
                 identifyVars, user, identity>>

\* The installation identity: the installation id is resolved and the record
\* is returned.
installationIdentity(c) ==
  /\ pc[c] = "getInstallationId"
  /\ op[c] = "getCurrentIdentity"
  /\ identityType(identityContext[c]) = "installation"
  /\ io' = [io EXCEPT ![c] = @ \cup installLookup(proc[c])]
  /\ identity' = [identity EXCEPT ![c] =
                    [NoIdentity EXCEPT
                       !.id = formatDistinctId(getInstallationId(proc[c]), identityType(identityContext[c])),
                       !.hosting = getHostingFromEnv(proc[c]),
                       !.type = identityType(identityContext[c]),
                       !.installationId = getInstallationId(proc[c])]]
  /\ pc' = [pc EXCEPT ![c] = "finished"]
  /\ prev' = Only(c)
  /\ UNCHANGED <<env, db, cache, ids, calls, locals, config, uniqueTenantId, fetched, ret,
                 err, wrote, op, identifyVars, identityContext, user>>

\* The tenant identity, first half: the installation id is resolved, then
\* getEventTenantId(context.getTenantId()) is called.
tenantIdentityInstall(c) ==
  /\ pc[c] = "getInstallationId"
  /\ op[c] = "getCurrentIdentity"
  /\ identityType(identityContext[c]) = "tenant"
  /\ io' = [io EXCEPT ![c] = @ \cup installLookup(proc[c])]
  /\ identity' = [identity EXCEPT ![c] =
                    [NoIdentity EXCEPT !.installationId = getInstallationId(proc[c])]]
  /\ getEventTenantId(c, proc[c], tenantId[c], tenantId[c])
  /\ UNCHANGED <<env, db, cache, ids, calls, config, uniqueTenantId, fetched, err, wrote,
                 op, identifyVars, identityContext, user>>

\* The tenant identity, second half: the record is returned.
tenantIdentity(c) ==
  /\ pc[c] = "done"
  /\ op[c] = "getCurrentIdentity"
  /\ identityType(identityContext[c]) = "tenant"
  /\ identity' = [identity EXCEPT ![c] =
                    [@ EXCEPT !.id = formatDistinctId(ret[c], identityType(identityContext[c])),
                              !.type = identityType(identityContext[c]),
                              !.hosting = getHostingFromEnv(proc[c]),
                              !.tenantId = ret[c]]]
  /\ pc' = [pc EXCEPT ![c] = "finished"]
  /\ prev' = Only(c)
  /\ UNCHANGED <<env, db, cache, ids, calls, locals, config, uniqueTenantId, fetched, ret,
                 err, io, wrote, op, identifyVars, identityContext, user>>

\* The user identity: after the tenant id the installation id is resolved
\* and the record is returned.
userIdentity(c) ==
  /\ pc[c] = "done"
  /\ op[c] = "getCurrentIdentity"
  /\ identityType(identityContext[c]) = "user"
  /\ io' = [io EXCEPT ![c] = @ \cup installLookup(proc[c])]
  /\ identity' = [identity EXCEPT ![c] =
                    [NoIdentity EXCEPT
                       !.id = identityContext[c]._id,
                       !.type = identityType(identityContext[c]),
                       !.hosting = IF identityContext[c].account # NoAccount
                                     THEN identityContext[c].account.hosting
                                     ELSE getHostingFromEnv(proc[c]),
                       !.installationId = getInstallationId(proc[c]),
                       !.tenantId = ret[c]]]
  /\ pc' = [pc EXCEPT ![c] = "finished"]
  /\ prev' = Only(c)
  /\ UNCHANGED <<env, db, cache, ids, calls, locals, config, uniqueTenantId, fetched, ret,
                 err, wrote, op, identifyVars, identityContext, user>>

\* identifyUser(user, account, timestamp) up to its first await.
identifyUser(c, p, u, a, acc, ts) ==
  /\ pc[c] = "idle"
  /\ calls < MaxCalls
  /\ calls' = calls + 1
  /\ op' = [op EXCEPT ![c] = "identifyUser"]
  /\ user' = [user EXCEPT ![c] = u]
  /\ account' = [account EXCEPT ![c] = acc]
  /\ timestamp' = [timestamp EXCEPT ![c] = ts]
  /\ getEventTenantId(c, p, u.tenantId, a)
  /\ UNCHANGED <<env, db, cache, ids, config, uniqueTenantId, fetched, err, io, wrote,
                 id, group, sink, identityContext, identity>>

\* verified is taken from any account, linked to the user or not.
userRecord_anyAccount(c) ==
  /\ pc[c] = "done"
  /\ op[c] = "identifyUser"
  /\ io' = [io EXCEPT ![c] = @ \cup installLookup(proc[c])]
  /\ identity' = [identity EXCEPT ![c] =
                    [id |-> user[c]._id,
                     tenantId |-> ret[c],
                     installationId |-> getInstallationId(proc[c]),
                     type |-> "user",
                     hosting |-> IF account[c] # NoAccount THEN account[c].hosting
                                 ELSE getHostingFromEnv(proc[c]),
                     verified |-> IF account[c] # NoAccount
                                   THEN account[c].verified ELSE "false",
                     accountHolder |-> IF account[c].budibaseUserId = user[c]._id
                                         THEN "true" ELSE "false",
                     providerType |-> user[c].providerType,
                     builder |-> orFalse(user[c].builder),
                     admin |-> orFalse(user[c].admin)]]
  /\ pc' = [pc EXCEPT ![c] = "sendIdentity"]
  /\ prev' = Only(c)
  /\ UNCHANGED <<env, db, cache, ids, calls, locals, config, uniqueTenantId, fetched, ret,
                 err, wrote, op, identifyVars, identityContext, user>>

\* identifyUser from the resolved tenant id to the identify call: the
\* installation id is resolved and the identity record is built.
userRecord(c) ==
  /\ pc[c] = "done"
  /\ op[c] = "identifyUser"
  /\ io' = [io EXCEPT ![c] = @ \cup installLookup(proc[c])]
  /\ identity' = [identity EXCEPT ![c] =
                    [id |-> user[c]._id,
                     tenantId |-> ret[c],
                     installationId |-> getInstallationId(proc[c]),
                     type |-> "user",
                     hosting |-> IF account[c] # NoAccount THEN account[c].hosting
                                 ELSE getHostingFromEnv(proc[c]),
                     verified |-> IF account[c] # NoAccount
                                     /\ account[c].budibaseUserId = user[c]._id
                                   THEN account[c].verified ELSE "false",
                     accountHolder |-> IF account[c].budibaseUserId = user[c]._id
                                         THEN "true" ELSE "false",
                     providerType |-> user[c].providerType,
                     builder |-> orFalse(user[c].builder),
                     admin |-> orFalse(user[c].admin)]]
  /\ pc' = [pc EXCEPT ![c] = "sendIdentity"]
  /\ prev' = Only(c)
  /\ UNCHANGED <<env, db, cache, ids, calls, locals, config, uniqueTenantId, fetched, ret,
                 err, wrote, op, identifyVars, identityContext, user>>

\* identifyAccount(account) up to its first await.
identifyAccount(c, p, acc) ==
  /\ pc[c] = "idle"
  /\ calls < MaxCalls
  /\ calls' = calls + 1
  /\ op' = [op EXCEPT ![c] = "identifyAccount"]
  /\ account' = [account EXCEPT ![c] = acc]
  /\ proc' = [proc EXCEPT ![c] = p]
  /\ pc' = [pc EXCEPT ![c] = "getInstallationId"]
  /\ prev' = [x \in Callers |-> NoPrev]
  /\ UNCHANGED <<env, db, cache, ids, tenantId, ctx, config, uniqueTenantId, fetched, ret,
                 err, io, wrote, timestamp, id, group, sink, identityVars>>

\* The id of the linked user is never substituted.
accountRecord_accountId(c) ==
  /\ pc[c] = "getInstallationId"
  /\ op[c] = "identifyAccount"
  /\ io' = [io EXCEPT ![c] = @ \cup installLookup(proc[c])]
  /\ identity' = [identity EXCEPT ![c] =
                    [NoIdentity EXCEPT
                       !.id = account[c].accountId,
                       !.tenantId = <<account[c].tenantId>>,
                       !.installationId = getInstallationId(proc[c]),
                       !.type = "user",
                       !.hosting = account[c].hosting,
                       !.verified = account[c].verified,
                       !.accountHolder = "true",
                       !.providerType = IF isSSOAccount(account[c])
                                          THEN account[c].providerType ELSE Unset]]
  /\ pc' = [pc EXCEPT ![c] = "sendIdentity"]
  /\ prev' = Only(c)
  /\ UNCHANGED <<env, db, cache, ids, calls, locals, config, uniqueTenantId, fetched, ret,
                 err, wrote, op, identifyVars, identityContext, user>>

\* identifyAccount from the resolved installation id to the identify call.
accountRecord(c) ==
  /\ pc[c] = "getInstallationId"
  /\ op[c] = "identifyAccount"
  /\ io' = [io EXCEPT ![c] = @ \cup installLookup(proc[c])]
  /\ identity' = [identity EXCEPT ![c] =
                    [NoIdentity EXCEPT
                       !.id = IF isCloudAccount(account[c])
                                 /\ account[c].budibaseUserId # Unset
                               THEN account[c].budibaseUserId
                               ELSE account[c].accountId,
                       !.tenantId = <<account[c].tenantId>>,
                       !.installationId = getInstallationId(proc[c]),
                       !.type = "user",
                       !.hosting = account[c].hosting,
                       !.verified = account[c].verified,
                       !.accountHolder = "true",
                       !.providerType = IF isSSOAccount(account[c])
                                          THEN account[c].providerType ELSE Unset]]
  /\ pc' = [pc EXCEPT ![c] = "sendIdentity"]
  /\ prev' = Only(c)
  /\ UNCHANGED <<env, db, cache, ids, calls, locals, config, uniqueTenantId, fetched, ret,
                 err, wrote, op, identifyVars, identityContext, user>>

\* installation.getInstall() rejects in one of the calls above.
getInstallFails(c) ==
  /\ \/ pc[c] = "getInstallationId"
     \/ /\ pc[c] = "done"
        /\ \/ op[c] = "identifyUser"
           \/ op[c] = "getCurrentIdentity" /\ identityType(identityContext[c]) = "user"
  /\ ~isAccountPortal(proc[c])
  /\ io' = [io EXCEPT ![c] = @ \cup installLookup(proc[c])]
  /\ err' = [err EXCEPT ![c] = "getInstall"]
  /\ pc' = [pc EXCEPT ![c] = "failed"]
  /\ prev' = Only(c)
  /\ UNCHANGED <<env, db, cache, ids, calls, locals, config, uniqueTenantId, fetched, ret,
                 wrote, op, identifyVars, identityVars>>

\* await identify(identity, timestamp)
sendIdentity(c) ==
  /\ pc[c] = "sendIdentity"
  /\ sink' = [sink EXCEPT ![c] = processorsCall(@, "identify", identity[c], timestamp[c])]
  /\ pc' = [pc EXCEPT ![c] = "finished"]
  /\ prev' = Only(c)
  /\ UNCHANGED <<env, db, cache, ids, calls, locals, config, uniqueTenantId, fetched, ret,
                 err, io, wrote, op, account, timestamp, id, group, identityVars>>

sendIdentityFails(c) ==
  /\ pc[c] = "sendIdentity"
  /\ err' = [err EXCEPT ![c] = "identify"]
  /\ pc' = [pc EXCEPT ![c] = "failed"]
  /\ prev' = Only(c)
  /\ UNCHANGED <<env, db, cache, ids, calls, locals, config, uniqueTenantId, fetched, ret,
                 io, wrote, op, identifyVars, identityVars>>

\* ---------------------------------------------------------------- environment
\* The caller has taken the result; its frame is gone.
Return(c) ==
  /\ \/ pc[c] \in {"failed", "finished"}
     \/ pc[c] = "done" /\ op[c] = "getEventTenantId"
  /\ pc' = [pc EXCEPT ![c] = "idle"]
  /\ prev' = [x \in Callers |->
                IF x # c THEN NoPrev
                ELSE IF ~prev[c].next THEN prev[c]
                ELSE IF pc[c] = "failed" THEN NoPrev
                ELSE [proc |-> proc[c], tenantId |-> tenantId[c], ret |-> ret[c],
                      next |-> FALSE]]
  /\ proc' = [proc EXCEPT ![c] = "-"]
  /\ tenantId' = [tenantId EXCEPT ![c] = "-"]
  /\ ctx' = [ctx EXCEPT ![c] = "-"]
  /\ config' = [config EXCEPT ![c] = Unset]
  /\ uniqueTenantId' = [uniqueTenantId EXCEPT ![c] = Unset]
  /\ fetched' = [fetched EXCEPT ![c] = Unset]
  /\ ret' = [ret EXCEPT ![c] = Unset]
  /\ err' = [err EXCEPT ![c] = "-"]
  /\ io' = [io EXCEPT ![c] = {}]
  /\ op' = [op EXCEPT ![c] = "-"]
  /\ account' = [account EXCEPT ![c] = NoAccount]
  /\ timestamp' = [timestamp EXCEPT ![c] = "-"]
  /\ id' = [id EXCEPT ![c] = Unset]
  /\ group' = [group EXCEPT ![c] = NoGroup]
  /\ sink' = [sink EXCEPT ![c] = << >>]
  /\ identityContext' = [identityContext EXCEPT ![c] = NoContext]
  /\ user' = [user EXCEPT ![c] = NoUser]
  /\ identity' = [identity EXCEPT ![c] = NoIdentity]
  /\ UNCHANGED <<env, db, cache, ids, calls, wrote>>

\* The entry of tenant t in process p's cache is lost: its TTL (TTL.ONE_DAY)
\* ran out, it was evicted, or the process restarted.
Expire(p, t) ==
  /\ cache[p][t] # Unset
  /\ cache' = [cache EXCEPT ![p][t] = Unset]
  /\ prev' = [x \in Callers |-> NoPrev]
  /\ UNCHANGED <<identityVars, env, db, ids, calls, pc, locals, config, uniqueTenantId, fetched,
                 ret, err, io, wrote, op, identifyVars>>

\* ---------------------------------------------------------------- specifications
\* The tenant id derivation under concurrent callers.
Next ==
  \/ \E c \in Callers, p \in Procs :
       \E t \in TenantsOf(DeploymentOf(p)), a \in TenantsOf(DeploymentOf(p)) :
          callGetEventTenantId(c, p, t, a) /\ UNCHANGED hist
  \/ \E c \in Callers : withCache(c) /\ UNCHANGED hist
  \/ \E c \in Callers : fetchConfig(c) /\ UNCHANGED hist
  \/ \E c \in Callers : fetchConfigFails(c) /\ UNCHANGED hist
  \/ \E c \in Callers : putConfig(c) /\ UNCHANGED hist
  \/ \E c \in Callers : putConfigFails(c) /\ UNCHANGED hist
  \/ \E c \in Callers : withCacheStore(c) /\ UNCHANGED hist
  \/ \E c \in Callers : Return(c) /\ UNCHANGED hist
  \/ \E p \in Procs, t \in Tenants : Expire(p, t) /\ UNCHANGED hist

Spec == Init /\ [][Next]_vars

\* The identify entry points, called one after the other by one caller.
IdentifyCallers == {"c1"}

NextIdentify ==
  \/ \E c \in IdentifyCallers, p \in Procs, i \in InstallIds, ts \in Timestamps :
       identifyInstallationGroup(c, p, i, ts) /\ UNCHANGED hist
  \/ \E c \in IdentifyCallers, p \in Procs, acc \in Accounts \cup {NoAccount}, ts \in Timestamps :
       \E t \in TenantsOf(DeploymentOf(p)), a \in TenantsOf(DeploymentOf(p)) :
          identifyTenantGroup(c, p, t, a, acc, ts) /\ UNCHANGED hist
  \/ \E c \in IdentifyCallers : withCache(c) /\ UNCHANGED hist
  \/ \E c \in IdentifyCallers : fetchConfig(c) /\ UNCHANGED hist
  \/ \E c \in IdentifyCallers : fetchConfigFails(c) /\ UNCHANGED hist
  \/ \E c \in IdentifyCallers : putConfig(c) /\ UNCHANGED hist
  \/ \E c \in IdentifyCallers : putConfigFails(c) /\ UNCHANGED hist
  \/ \E c \in IdentifyCallers : withCacheStore(c) /\ UNCHANGED hist
  \/ \E c \in IdentifyCallers : tenantGroup(c) /\ UNCHANGED hist
  \/ \E c \in IdentifyCallers : tenantGroupInstallFails(c) /\ UNCHANGED hist
  \/ \E c \in IdentifyCallers : identifyGroup(c) /\ UNCHANGED hist
  \/ \E c \in IdentifyCallers : identifyGroupFails(c) /\ UNCHANGED hist
  \/ \E c \in IdentifyCallers : identify(c) /\ UNCHANGED hist
  \/ \E c \in IdentifyCallers : identifyFails(c) /\ UNCHANGED hist
  \/ \E c \in IdentifyCallers : Return(c) /\ UNCHANGED hist
  \/ \E p \in Procs, t \in Tenants : Expire(p, t) /\ UNCHANGED hist

SpecIdentify == InitIdentify /\ [][NextIdentify]_vars

\* The identity entry points, called one after the other by one caller in
\* one process.
IdentityProcs == {"p1"}

NextIdentity ==
  \/ \E c \in IdentifyCallers, p \in IdentityProcs, ictx \in IdentityContexts \cup {NoContext} :
       \E t \in TenantsOf(DeploymentOf(p)) : getCurrentIdentity(c, p, ictx, t) /\ UNCHANGED hist
  \/ \E c \in IdentifyCallers, p \in IdentityProcs, u \in Users, ts \in Timestamps,
        acc \in IdentityAccounts \cup {NoAccount} :
       \E t \in TenantsOf(DeploymentOf(p)), a \in TenantsOf(DeploymentOf(p)) :
          identifyUser(c, p, [u EXCEPT !.tenantId = t], a, acc, ts) /\ UNCHANGED hist
  \/ \E c \in IdentifyCallers, p \in IdentityProcs, acc \in IdentityAccounts : identifyAccount(c, p, acc) /\ UNCHANGED hist
  \/ \E c \in IdentifyCallers : withCache(c) /\ UNCHANGED hist
  \/ \E c \in IdentifyCallers : fetchConfig(c) /\ UNCHANGED hist
  \/ \E c \in IdentifyCallers : fetchConfigFails(c) /\ UNCHANGED hist
  \/ \E c \in IdentifyCallers : putConfig(c) /\ UNCHANGED hist
  \/ \E c \in IdentifyCallers : putConfigFails(c) /\ UNCHANGED hist
  \/ \E c \in IdentifyCallers : withCacheStore(c) /\ UNCHANGED hist
  \/ \E c \in IdentifyCallers : installationIdentity(c) /\ UNCHANGED hist
  \/ \E c \in IdentifyCallers : tenantIdentityInstall(c) /\ UNCHANGED hist
  \/ \E c \in IdentifyCallers : tenantIdentity(c) /\ UNCHANGED hist
  \/ \E c \in IdentifyCallers : userIdentity(c) /\ UNCHANGED hist
  \/ \E c \in IdentifyCallers : userRecord(c) /\ UNCHANGED hist
  \/ \E c \in IdentifyCallers : accountRecord(c) /\ UNCHANGED hist
  \/ \E c \in IdentifyCallers : getInstallFails(c) /\ UNCHANGED hist
  \/ \E c \in IdentifyCallers : sendIdentity(c) /\ UNCHANGED hist
  \/ \E c \in IdentifyCallers : sendIdentityFails(c) /\ UNCHANGED hist
  \/ \E c \in IdentifyCallers : Return(c) /\ UNCHANGED hist
  \/ \E p \in Procs, t \in Tenants : Expire(p, t) /\ UNCHANGED hist

SpecIdentity == InitIdentity /\ [][NextIdentity]_vars

\* The tenant id derivation of one self-hosted deployment under concurrent
\* callers, with the history of each document and cache key.
HistoryProcs == {"p1", "p2"}

InitHistory ==
  /\ env = [p \in Procs |-> [SELF_HOSTED |-> TRUE, SERVICE |-> "worker"]]
  /\ InitState

\* c is inside getUniqueTenantId.
InFlight(c) == pc[c] \in {"withCache", "fetch", "put", "store"}

\* A call for tenant t begins in process p while another one is in progress.
Begun(c, p, t) ==
  IF \E x \in Callers \ {c} :
       InFlight(x) /\ DeploymentOf(proc[x]) = DeploymentOf(p) /\ ctx[x] = t
    THEN [hist EXCEPT !.doc[DeploymentOf(p)][t].overlap = TRUE]
    ELSE hist

\* c has minted an id.
MintedBy(c) ==
  [hist EXCEPT !.doc[DeploymentOf(proc[c])][ctx[c]].mints = @ + 1]

\* c's db.put has ended, with the document written or not.
PutBy(c, ok) ==
  [hist EXCEPT
     !.doc[DeploymentOf(proc[c])][ctx[c]] =
        [@ EXCEPT !.puts = @ + 1,
                  !.written = IF ok THEN @ + 1 ELSE @,
                  !.was = @ \cup ({db'[DeploymentOf(proc[c])][ctx[c]]} \ {Unset})],
     !.failed[proc[c]][ctx[c]] = IF ok THEN @ ELSE TRUE]

\* c's call has ended, with a value or with an error.
EndedBy(c, ok) == [hist EXCEPT !.failed[proc[c]][ctx[c]] = ~ok]

NextHistory ==
  \/ \E c \in Callers, p \in HistoryProcs :
       \E t \in TenantsOf(DeploymentOf(p)), a \in TenantsOf(DeploymentOf(p)) :
          callGetEventTenantId(c, p, t, a) /\ hist' = Begun(c, p, t)
  \/ \E c \in Callers :
       withCache(c) /\ hist' = (IF pc'[c] = "done" THEN EndedBy(c, TRUE) ELSE hist)
  \/ \E c \in Callers :
       fetchConfig(c) /\ hist' = (IF pc'[c] = "put" THEN MintedBy(c) ELSE hist)
  \/ \E c \in Callers : fetchConfigFails(c) /\ hist' = EndedBy(c, FALSE)
  \/ \E c \in Callers : putConfig(c) /\ hist' = PutBy(c, TRUE)
  \/ \E c \in Callers : putConfigFails(c) /\ hist' = PutBy(c, FALSE)
  \/ \E c \in Callers : withCacheStore(c) /\ hist' = EndedBy(c, TRUE)
  \/ \E c \in Callers : Return(c) /\ UNCHANGED hist
  \/ \E p \in HistoryProcs, t \in Tenants : Expire(p, t) /\ UNCHANGED hist

SpecHistory == InitHistory /\ [][NextHistory]_vars

\* ---------------------------------------------------------------- properties
DocOf(c) == <<DeploymentOf(proc[c]), ctx[c]>>

\* Caller c's db.put of the current call reached the document.
Wrote(c) == "db.put" \in io[c] /\ err[c] # "db.put"

\* C1: once the persisted settings document of a tenant has uniqueTenantId
\* set, no step changes that field (neither to another value nor to unset).
C1_PersistedIdImmutable ==
  [][\A d \in Deployments, t \in Tenants : db[d][t] # Unset => db'[d][t] = db[d][t]]_vars

\* C2: whenever two callers of one tenant have both read the field as unset
\* and both written, they minted distinct ids, the document holds the id of
\* the later writer, and the earlier writer holds and returns its own id,
\* which is not the persisted one.
C2_RaceLastWriteWins ==
  \A c1, c2 \in Callers :
    (c1 # c2 /\ Wrote(c1) /\ Wrote(c2) /\ DocOf(c1) = DocOf(c2)
       /\ wrote[DeploymentOf(proc[c2])][ctx[c2]] = c2)
    => /\ uniqueTenantId[c1] # uniqueTenantId[c2]
       /\ db[DeploymentOf(proc[c2])][ctx[c2]] = uniqueTenantId[c2]
       /\ fetched[c1] = uniqueTenantId[c1]
       /\ fetched[c1] # db[DeploymentOf(proc[c1])][ctx[c1]]
       /\ (pc[c1] = "done" => ret[c1] = uniqueTenantId[c1])

\* C2 happens: both callers raced, both returned, and the earlier writer's
\* process caches the id that lost.
C2_Witness ==
  \E c1, c2 \in Callers :
    /\ c1 # c2 /\ Wrote(c1) /\ Wrote(c2) /\ DocOf(c1) = DocOf(c2)
    /\ pc[c1] = "done" /\ pc[c2] = "done"
    /\ proc[c1] # proc[c2]
    /\ ret[c2] = db[DeploymentOf(proc[c2])][ctx[c2]]
    /\ ret[c1] # ret[c2]
    /\ cache[proc[c1]][ctx[c1]] = ret[c1]

\* A db.put on tenant t's document in deployment d is in flight.
PendingPut(d, t) ==
  \E c \in Callers : pc[c] = "put" /\ DocOf(c) = <<d, t>>

\* Process p has converged on tenant t: the document holds an id, no write
\* to it is in flight, p's cache entry is lost or holds the persisted id, and
\* no call of p for t holds another value.
ConvergedIn(p, t) ==
  /\ db[DeploymentOf(p)][t] # Unset
  /\ ~PendingPut(DeploymentOf(p), t)
  /\ cache[p][t] \in {Unset, db[DeploymentOf(p)][t]}
  /\ \A c \in Callers :
       (proc[c] = p /\ ctx[c] = t)
       => /\ fetched[c] \in {Unset, db[DeploymentOf(p)][t]}
          /\ ret[c] \in {Unset, db[DeploymentOf(p)][t]}

\* C3: once the racing first calls are over and process p's stale cache entry
\* of tenant t has expired, p stays converged: the persisted id no longer
\* changes and every call of p for t that returns, returns the persisted id.
C3_ConvergesAfterExpiry ==
  [][\A p \in Procs, t \in Tenants :
       ConvergedIn(p, t)
       => /\ ConvergedIn(p, t)'
          /\ db'[DeploymentOf(p)][t] = db[DeploymentOf(p)][t]
          /\ \A c \in Callers :
               (proc'[c] = p /\ ctx'[c] = t /\ pc[c] # "done" /\ pc'[c] = "done")
               => ret'[c] = db'[DeploymentOf(p)][t]]_vars

\* C3 happens: a call that missed the cache after the race read the document
\* and returned the persisted id, while another process of the deployment
\* still caches the id that lost.
C3_Witness ==
  \E c \in Callers, q \in Procs :
    /\ pc[c] = "done" /\ "db.get" \in io[c] /\ ~Wrote(c)
    /\ ConvergedIn(proc[c], ctx[c])
    /\ ret[c] = db[DeploymentOf(proc[c])][ctx[c]]
    /\ q # proc[c] /\ DeploymentOf(q) = DeploymentOf(proc[c])
    /\ cache[q][ctx[c]] \notin {Unset, ret[c]}

\* C4: a call that misses the cache and reads a set uniqueTenantId v mints no
\* id, writes nothing to the store, hands v to the cache and returns v.
C4_PersistedSurvivesCacheLoss ==
  [][\A c \in Callers :
       LET v == db[DeploymentOf(proc[c])][ctx[c]] IN
       /\ (pc[c] = "fetch" /\ pc'[c] \notin {"fetch", "failed"} /\ v # Unset)
          => /\ pc'[c] = "store"
             /\ config'[c] = v /\ fetched'[c] = v
             /\ uniqueTenantId'[c] = Unset
             /\ ids' = ids /\ db' = db
       /\ (pc[c] = "store" /\ pc'[c] = "done" /\ uniqueTenantId[c] = Unset)
          => /\ ret'[c] = config[c]
             /\ cache'[proc[c]][ctx[c]] = config[c]
             /\ "db.put" \notin io'[c]
             /\ ids' = ids /\ db' = db]_vars

\* C4 happens: the document held an id, the process had no cache entry, and
\* the call returned and cached the persisted id without writing.
C4_Witness ==
  \E c \in Callers :
    /\ pc[c] = "done" /\ io[c] = {"cache.get", "db.get", "cache.store"}
    /\ uniqueTenantId[c] = Unset
    /\ ret[c] = db[DeploymentOf(proc[c])][ctx[c]]
    /\ cache[proc[c]][ctx[c]] = ret[c]
    /\ wrote[DeploymentOf(proc[c])][ctx[c]] # c

\* C5: a getUniqueTenantId call that follows a completed one of the same
\* process and tenant, with no cache loss and no other caller in between,
\* returns the same value, and only looked the cache up.
C5_IdempotentUnderCacheHit ==
  \A c \in Callers :
    (pc[c] = "done" /\ prev[c].next)
    => /\ ret[c] = prev[c].ret
       /\ io[c] = {"cache.get"}

\* C5 happens: the second of two calls in succession has returned.
C5_Witness ==
  \E c \in Callers :
    /\ pc[c] = "done" /\ prev[c].next
    /\ prev[c].proc = proc[c] /\ prev[c].tenantId = tenantId[c]
    /\ ret[c] # Unset

\* C6: a failed db.put or a failed read reaches the caller as that error,
\* with no value returned and nothing cached by the call; the step that fails
\* changes neither the store nor the cache, the minted id is not in the
\* document, and a document nobody wrote is still unset.
C6_FailedWriteLeavesDocument ==
  /\ [](\A c \in Callers :
          (err[c] \in {"db.put", "db.get"})
          => /\ pc[c] = "failed"
             /\ ret[c] = Unset
             /\ "cache.store" \notin io[c]
             /\ (err[c] = "db.put"
                 => /\ db[DeploymentOf(proc[c])][ctx[c]] # uniqueTenantId[c]
                    /\ (wrote[DeploymentOf(proc[c])][ctx[c]] = NoCaller
                        => db[DeploymentOf(proc[c])][ctx[c]] = Unset)))
  /\ [][\A c \in Callers :
          (pc[c] \in {"put", "fetch"} /\ pc'[c] = "failed")
          => /\ db' = db /\ cache' = cache
             /\ err'[c] = (IF pc[c] = "put" THEN "db.put" ELSE "db.get")]_vars

\* C6 happens: db.put failed on a document that is still unset.
C6_Witness ==
  \E c \in Callers :
    /\ pc[c] = "failed" /\ err[c] = "db.put"
    /\ uniqueTenantId[c] # Unset
    /\ db[DeploymentOf(proc[c])][ctx[c]] = Unset

\* The ids handed out so far.
Minted == { newid(n) : n \in 0 .. ids - 1 }

\* C7: self hosted, getEventTenantId(t) returns <random id>_t, and the ids of
\* one raw tenant id in two independent deployments differ.
C7_SelfHostedShapeNoCollision ==
  /\ \A c \in Callers :
       (pc[c] = "done" /\ SELF_HOSTED(proc[c]))
       => /\ Len(ret[c]) = 3
          /\ ret[c][1] \in Minted
          /\ ret[c][2] = "_"
          /\ ret[c][3] = tenantId[c]
  /\ \A c1, c2 \in Callers :
       (pc[c1] = "done" /\ pc[c2] = "done" /\ SELF_HOSTED(proc[c1]) /\ SELF_HOSTED(proc[c2])
          /\ DeploymentOf(proc[c1]) # DeploymentOf(proc[c2]) /\ tenantId[c1] = tenantId[c2])
       => ret[c1] # ret[c2]
  /\ \A d1, d2 \in Deployments, t \in Tenants :
       (d1 # d2 /\ db[d1][t] # Unset) => db[d1][t] # db[d2][t]

\* C7 happens: two self hosted deployments have both derived the id of the
\* same raw tenant id.
C7_Witness ==
  \E c1, c2 \in Callers :
    /\ pc[c1] = "done" /\ pc[c2] = "done"
    /\ SELF_HOSTED(proc[c1]) /\ SELF_HOSTED(proc[c2])
    /\ DeploymentOf(proc[c1]) # DeploymentOf(proc[c2])
    /\ tenantId[c1] = tenantId[c2]
    /\ Wrote(c1) /\ Wrote(c2)

\* C8: cloud hosted, getEventTenantId(t) returns t as it is in the step that
\* calls it, having called neither the cache nor the store, and that step
\* leaves every document, every cache entry and the id generator as they were.
C8_CloudPassThrough ==
  /\ [](\A c \in Callers :
          (pc[c] # "idle" /\ ~SELF_HOSTED(proc[c]))
          => /\ pc[c] = "done"
             /\ ret[c] = <<tenantId[c]>>
             /\ io[c] = {}
             /\ uniqueTenantId[c] = Unset)
  /\ [][\A c \in Callers :
          (pc[c] = "idle" /\ pc'[c] # "idle" /\ ~SELF_HOSTED(proc'[c]))
          => /\ pc'[c] = "done"
             /\ ret'[c] = <<tenantId'[c]>>
             /\ db' = db /\ cache' = cache /\ ids' = ids]_vars

\* C8 happens: a cloud call has returned while the other deployment has a
\* persisted id.
C8_Witness ==
  \E c \in Callers, d \in Deployments :
    /\ pc[c] = "done" /\ ~SELF_HOSTED(proc[c])
    /\ ret[c] = <<tenantId[c]>>
    /\ db[d][tenantId[c]] # Unset

\* C9: a call for tenant t works in t's scope only. The ids in t's document
\* and cache entries end in _t, a call returns an id ending in its own tenant
\* id, a document changes only by the put of a call for that tenant in that
\* deployment, and a cache entry only by the store of a call for that tenant
\* in that process or by its loss.
C9_TenantScoping ==
  /\ [](/\ \A c \in Callers :
             (pc[c] # "idle" /\ SELF_HOSTED(proc[c]))
             => /\ ctx[c] = tenantId[c]
                /\ (ret[c] # Unset => ret[c][Len(ret[c])] = tenantId[c])
        /\ \A d \in Deployments, t \in Tenants :
             db[d][t] # Unset => db[d][t][Len(db[d][t])] = t
        /\ \A p \in Procs, t \in Tenants :
             cache[p][t] # Unset => cache[p][t][Len(cache[p][t])] = t)
  /\ [][/\ \A d \in Deployments, u \in Tenants :
             db'[d][u] # db[d][u]
             => \E c \in Callers :
                  /\ pc[c] = "put" /\ pc'[c] = "store"
                  /\ tenantId[c] = u /\ DeploymentOf(proc[c]) = d
        /\ \A p \in Procs, u \in Tenants :
             cache'[p][u] # cache[p][u]
             => \/ cache'[p][u] = Unset
                \/ \E c \in Callers :
                     /\ pc[c] = "store" /\ pc'[c] = "done"
                     /\ tenantId[c] = u /\ proc[c] = p]_vars

\* C9 happens: one deployment holds the ids of two tenants, and a call for
\* one of them has returned its own.
C9_Witness ==
  \E c \in Callers, u \in Tenants :
    /\ pc[c] = "done" /\ SELF_HOSTED(proc[c])
    /\ u # tenantId[c]
    /\ db[DeploymentOf(proc[c])][u] # Unset
    /\ db[DeploymentOf(proc[c])][tenantId[c]] = ret[c]
    /\ cache[proc[c]][u] # Unset

\* The raw id of the group a group call identifies.
RawGroupId(c) == IF op[c] = "identifyTenantGroup" THEN ret[c] ELSE id[c]
GroupType(c) == IF op[c] = "identifyTenantGroup" THEN "tenant" ELSE "installation"

\* C10: a group call that has succeeded made exactly two processors calls:
\* identifyGroup with the raw group id, then identify with
\* formatDistinctId(raw id, type) and otherwise the same record; cloud hosted,
\* the raw id of a tenant group is the tenantId argument.
C10_GroupEmitsTwoCalls ==
  \A c \in Callers :
    (pc[c] = "finished" /\ op[c] \in {"identifyTenantGroup", "identifyInstallationGroup"})
    => /\ Len(sink[c]) = 2
       /\ sink[c][1].call = "identifyGroup"
       /\ sink[c][2].call = "identify"
       /\ sink[c][1].payload.id = RawGroupId(c)
       /\ sink[c][1].payload.type = GroupType(c)
       /\ sink[c][2].payload.id = formatDistinctId(RawGroupId(c), GroupType(c))
       /\ sink[c][2].payload = [sink[c][1].payload EXCEPT !.id = sink[c][2].payload.id]
       /\ sink[c][2].payload.id # sink[c][1].payload.id
       /\ (op[c] = "identifyTenantGroup" /\ ~SELF_HOSTED(proc[c])
           => sink[c][1].payload.id = <<tenantId[c]>>)
       /\ (op[c] = "identifyTenantGroup"
           => /\ sink[c][1].payload.hosting =
                   (IF account[c] # NoAccount THEN account[c].hosting
                    ELSE getHostingFromEnv(proc[c]))
              /\ sink[c][1].payload.profession = account[c].profession
              /\ sink[c][1].payload.companySize = account[c].size)
       /\ (op[c] = "identifyInstallationGroup"
           => /\ sink[c][1].payload.hosting = getHostingFromEnv(proc[c])
              /\ sink[c][1].payload.version = pkgVersion)

\* C10 happens: a cloud hosted tenant group call with an account has
\* succeeded.
C10_Witness ==
  \E c \in Callers :
    /\ pc[c] = "finished" /\ op[c] = "identifyTenantGroup"
    /\ ~SELF_HOSTED(proc[c]) /\ account[c] # NoAccount
    /\ Len(sink[c]) = 2
    /\ sink[c][2].payload.id = <<"$", "tenant", "_", tenantId[c]>>

\* ---------------------------------------------------------------- identity properties
\* c has the identity record of a completed getCurrentIdentity call.
Returned(c) == op[c] = "getCurrentIdentity" /\ pc[c] = "finished"

\* The ids and kinds formatDistinctId is tried on.
SampleIds == { <<"i1">>, <<"1", "_", "t1">>, <<"$", "tenant", "_", "t1">>, << >> }
SampleTypes == IdentityTypes \cup {"device", "-"}

\* C11: the identity getCurrentIdentity returns has the id "$" + kind + "_" +
\* raw id for an installation (raw id: the installation id) and for a tenant
\* (raw id: the event tenant id), and the raw user id for a user;
\* formatDistinctId prefixes exactly the kinds installation and tenant and
\* returns the id of every other kind as it is.
C11_DistinctIdFormat ==
  /\ \A c \in Callers :
       Returned(c) =>
         CASE identity[c].type = "installation" ->
                /\ identity[c].installationId # Unset
                /\ identity[c].id = <<"$", "installation", "_">> \o identity[c].installationId
           [] identity[c].type = "tenant" ->
                /\ identity[c].tenantId = ret[c]
                /\ ret[c] # Unset
                /\ identity[c].id = <<"$", "tenant", "_">> \o ret[c]
           [] identity[c].type = "user" ->
                identity[c].id = identityContext[c]._id
           [] OTHER -> FALSE
  /\ \A i \in SampleIds, k \in SampleTypes :
       IF k \in {"installation", "tenant"}
         THEN /\ Len(formatDistinctId(i, k)) = Len(i) + 3
              /\ SubSeq(formatDistinctId(i, k), 1, 3) = <<"$", k, "_">>
              /\ SubSeq(formatDistinctId(i, k), 4, Len(i) + 3) = i
         ELSE formatDistinctId(i, k) = i

\* A self-hosted tenant identity with a minted id, after an installation
\* identity and a user identity were returned in the same process.
C11_Witness ==
  /\ Returned("c1")
  /\ identity["c1"].type = "tenant"
  /\ SELF_HOSTED(proc["c1"])
  /\ identity["c1"].id = <<"$", "tenant", "_", "1", "_", tenantId["c1"]>>

\* C12: without an identity context getCurrentIdentity returns a tenant
\* identity: its tenantId is what getEventTenantId gives for the tenant id of
\* the ambient context, its id is the formatted distinct id of that tenantId
\* and its hosting is the hosting of the environment.
C12_DefaultsToTenant ==
  \A c \in Callers :
    Returned(c) /\ identityContext[c] = NoContext =>
      /\ identity[c].type = "tenant"
      /\ identity[c].tenantId =
           IF env[proc[c]].SELF_HOSTED THEN db[DeploymentOf(proc[c])][tenantId[c]]
           ELSE <<tenantId[c]>>
      /\ identity[c].tenantId # Unset
      /\ identity[c].id = <<"$", "tenant", "_">> \o identity[c].tenantId
      /\ identity[c].hosting = (IF env[proc[c]].SELF_HOSTED THEN "self" ELSE "cloud")

\* A self-hosted tenant identity without identity context, its tenant id
\* taken from the cache.
C12_Witness ==
  /\ Returned("c1")
  /\ identityContext["c1"] = NoContext
  /\ identity["c1"].type = "tenant"
  /\ SELF_HOSTED("p1")
  /\ io["c1"] = {"getInstall", "cache.get"}

\* The identity context of c has a kind that is none of IdentityType.
UnknownKind(c) ==
  identityContext[c] # NoContext /\ identityContext[c].type \notin IdentityTypes

\* C13: with an identity context of a kind other than installation, tenant
\* and user, getCurrentIdentity fails: the error reaches the caller, no
\* identity is returned, and the failure comes before any registry lookup,
\* cache lookup, document read or document write, so that what is persisted
\* and cached stays as it was.
C13_UnknownKindFails ==
  /\ [](\A c \in Callers :
          op[c] = "getCurrentIdentity" /\ UnknownKind(c) =>
            /\ pc[c] = "failed"
            /\ err[c] = "Unknown identity type"
            /\ io[c] = {}
            /\ identity[c] = NoIdentity
            /\ ret[c] = Unset)
  /\ [][\A c \in Callers :
          op'[c] = "getCurrentIdentity" /\ UnknownKind(c)' /\ pc[c] = "idle" =>
            /\ db' = db
            /\ cache' = cache
            /\ ids' = ids]_vars

\* The failure, with an id persisted and cached by an earlier call.
C13_Witness ==
  /\ op["c1"] = "getCurrentIdentity"
  /\ UnknownKind("c1")
  /\ pc["c1"] = "failed"
  /\ \E t \in Tenants : db["d1"][t] # Unset /\ cache["p1"][t] # Unset

\* The identify call c has made for the account or the user.
Emitted(c) == sink[c][1].payload

\* What C14 says without regard to the hosting of the account.
C14_AnyAccount ==
  \A c \in Callers :
    op[c] = "identifyAccount" /\ sink[c] # << >> =>
      Emitted(c).id = IF account[c].budibaseUserId # Unset THEN account[c].budibaseUserId
                      ELSE account[c].accountId

\* C14: identifyAccount emits one identify call; its id is
\* account.budibaseUserId, and not account.accountId, for every cloud account
\* whose budibaseUserId is set, and account.accountId for every other account.
C14_CloudAccountLinkedId ==
  \A c \in Callers :
    op[c] = "identifyAccount" /\ sink[c] # << >> =>
      /\ Len(sink[c]) = 1
      /\ sink[c][1].call = "identify"
      /\ Emitted(c) = identity[c]
      /\ IF account[c].hosting = "cloud" /\ account[c].budibaseUserId # Unset
           THEN /\ Emitted(c).id = account[c].budibaseUserId
                /\ Emitted(c).id # account[c].accountId
           ELSE Emitted(c).id = account[c].accountId

\* A cloud account with a linked user was identified.
C14_Witness ==
  /\ op["c1"] = "identifyAccount"
  /\ pc["c1"] = "finished"
  /\ account["c1"].hosting = "cloud"
  /\ Emitted("c1").id = <<"u1">>

\* The account given to identifyUser is linked to the user.
Linked(c) == account[c] # NoAccount /\ account[c].budibaseUserId = user[c]._id

Resolved(c) == identity[c].installationId # Unset

\* C16: in the account portal (SERVICE = "account-portal") getInstallationId
\* gives the constant "account-portal" and installation.getInstall is not
\* called; in every other service it gives the installId of the record
\* getInstall returns.
C16_AccountPortalInstallationId ==
  \A c \in Callers :
    /\ proc[c] # "-" /\ env[proc[c]].SERVICE = "account-portal" =>
         /\ "getInstall" \notin io[c]
         /\ err[c] # "getInstall"
         /\ Resolved(c) => identity[c].installationId = <<"account-portal">>
    /\ proc[c] # "-" /\ env[proc[c]].SERVICE # "account-portal" /\ Resolved(c) =>
         /\ "getInstall" \in io[c]
         /\ identity[c].installationId = getInstall(DeploymentOf(proc[c])).installId

\* The account portal has built an identity.
C16_Witness ==
  /\ env["p1"].SERVICE = "account-portal"
  /\ pc["c1"] = "finished"
  /\ identity["c1"].installationId = <<"account-portal">>
  /\ io["c1"] = {}

\* ---------------------------------------------------------------- history properties
\* The history of the settings document of tenant t in deployment d.
Doc(d, t) == hist.doc[d][t]

\* What C17 says of every sequence of calls that do not overlap, failed
\* writes included.
C17_AtMostOneMint ==
  \A d \in Deployments, t \in Tenants :
    ~Doc(d, t).overlap => Doc(d, t).mints <= 1 /\ Doc(d, t).puts <= 1

\* C17: when the getUniqueTenantId calls of a tenant never overlap, then over
\* every sequence of calls, cache hits, expiries and failures at most one
\* db.put of the tenant succeeds, and an id is minted again only after the
\* db.put of the id minted before has failed; an id is minted and db.put is
\* called only in a call that missed the cache and read uniqueTenantId as
\* unset, and that call calls db.put exactly once.
C17_AtMostOnePersisted ==
  /\ [](/\ \A d \in Deployments, t \in Tenants :
            ~Doc(d, t).overlap =>
              /\ Doc(d, t).written <= 1
              /\ Doc(d, t).puts <= Doc(d, t).mints
              /\ Doc(d, t).mints <= Doc(d, t).puts + 1
              /\ Doc(d, t).mints <= 1 + (Doc(d, t).puts - Doc(d, t).written)
        /\ \A c \in Callers :
            /\ uniqueTenantId[c] # Unset =>
                 /\ {"cache.get", "db.get"} \subseteq io[c]
                 /\ "db.put" \in io[c] <=> pc[c] # "put"
            /\ "db.put" \in io[c] => uniqueTenantId[c] # Unset)
  /\ [][\A d \in Deployments, t \in Tenants :
          /\ Doc(d, t).mints' # Doc(d, t).mints =>
               /\ Doc(d, t).mints' = Doc(d, t).mints + 1
               /\ db[d][t] = Unset
               /\ \E c \in Callers :
                    /\ DocOf(c) = <<d, t>>
                    /\ pc[c] = "fetch" /\ pc'[c] = "put"
                    /\ "cache.get" \in io[c]
                    /\ uniqueTenantId'[c] # Unset
          /\ Doc(d, t).puts' # Doc(d, t).puts =>
               /\ Doc(d, t).puts' = Doc(d, t).puts + 1
               /\ \E c \in Callers :
                    /\ DocOf(c) = <<d, t>>
                    /\ pc[c] = "put" /\ pc'[c] \in {"store", "failed"}
                    /\ "db.put" \notin io[c]]_vars

\* Calls that never overlapped: the first db.put failed, the id minted by the
\* next call was written, and a later call is served from the cache.
C17_Witness ==
  /\ ~Doc("d1", "t1").overlap
  /\ Doc("d1", "t1").mints = 2
  /\ Doc("d1", "t1").written = 1
  /\ db["d1"]["t1"] = <<"2", "_", "t1">>
  /\ \E c \in Callers :
       /\ pc[c] = "done" /\ ctx[c] = "t1"
       /\ io[c] = {"cache.get"}

\* C18: a cache entry of tenant t holds only a value that the document of t
\* in the deployment of that process has held, read from it or written to it
\* by the caller that cached it; and while the calls of t have never
\* overlapped, a cache entry of t is the id persisted now.
C18_CacheProvenance ==
  \A p \in Procs, t \in Tenants :
    cache[p][t] # Unset =>
      /\ cache[p][t] \in Doc(DeploymentOf(p), t).was
      /\ ~Doc(DeploymentOf(p), t).overlap => cache[p][t] = db[DeploymentOf(p)][t]

\* After a race a process holds the overwritten id of t1, which the document
\* has held, and a process holds the id of t2, whose calls never overlapped.
C18_Witness ==
  /\ Doc("d1", "t1").overlap
  /\ \E p \in Procs : cache[p]["t1"] # Unset /\ cache[p]["t1"] # db["d1"]["t1"]
  /\ ~Doc("d1", "t2").overlap
  /\ \E p \in Procs : cache[p]["t2"] # Unset

\* What C19 says of the next call, whether or not calls overlap.
C19_NextCallMisses ==
  \A p \in Procs, t \in Tenants : hist.failed[p][t] => cache[p][t] = Unset

\* C19: a getUniqueTenantId call whose read or db.put fails after a cache
\* miss creates no cache entry and returns nothing, the minted id is dropped;
\* and while the calls of the tenant have never overlapped, the next call for
\* the tenant in that process finds no cache entry, reads the document again
\* and returns what is persisted when it returns.
C19_FailureDoesNotPoisonCache ==
  /\ [](/\ \A c \in Callers :
            err[c] \in {"db.get", "db.put"} =>
              /\ pc[c] = "failed"
              /\ "cache.store" \notin io[c]
              /\ ret[c] = Unset
        /\ \A p \in Procs, t \in Tenants :
            hist.failed[p][t] /\ ~Doc(DeploymentOf(p), t).overlap => cache[p][t] = Unset)
  /\ [][/\ \A c \in Callers : pc[c] # "failed" /\ pc'[c] = "failed" => cache' = cache
        /\ \A p \in Procs, t \in Tenants :
            (hist.failed[p][t] /\ ~hist'.failed[p][t] /\ ~Doc(DeploymentOf(p), t).overlap') =>
              \E c \in Callers :
                /\ proc[c] = p /\ ctx[c] = t
                /\ pc[c] = "store" /\ pc'[c] = "done"
                /\ {"cache.get", "db.get"} \subseteq io[c]
                /\ ret'[c] # Unset
                /\ ret'[c] = db'[DeploymentOf(p)][t]
                /\ cache'[p][t] = ret'[c]]_vars

\* The call after a failed db.put has minted again, written and returned.
C19_Witness ==
  \E c \in Callers :
    /\ pc[c] = "done"
    /\ ~Doc("d1", ctx[c]).overlap
    /\ Doc("d1", ctx[c]).puts = 2
    /\ Doc("d1", ctx[c]).written = 1
    /\ ~hist.failed[proc[c]][ctx[c]]
    /\ ret[c] = db["d1"][ctx[c]]
    /\ "db.put" \in io[c]

\* ---------------------------------------------------------------- group call order
\* The processors calls c has issued in the current call, in order: those
\* that have completed and the one that was rejected.
Issued(c) ==
  [i \in 1 .. Len(sink[c]) |-> sink[c][i].call]
    \o (IF err[c] \in {"identifyGroup", "identify"} THEN <<err[c]>> ELSE << >>)

GroupCall(c) == op[c] \in {"identifyTenantGroup", "identifyInstallationGroup"}

\* C20: identifyTenantGroup and identifyInstallationGroup issue identify only
\* after identifyGroup has completed, and both only after the tenant id and
\* the installation id are resolved; when the resolution fails nothing is
\* issued, when identifyGroup fails identify is not issued: the calls of one
\* invocation are none, (identifyGroup) or (identifyGroup, identify).
C20_GroupCallOrder ==
  /\ [](\A c \in Callers :
          GroupCall(c) =>
            /\ Issued(c) \in { << >>, <<"identifyGroup">>, <<"identifyGroup", "identify">> }
            /\ Issued(c) # << >> =>
                 /\ group[c] # NoGroup
                 /\ op[c] = "identifyTenantGroup" =>
                      /\ ret[c] # Unset
                      /\ group[c].id = ret[c]
                      /\ group[c].installationId # Unset
            /\ err[c] \in {"db.get", "db.put", "getInstall"} =>
                 pc[c] = "failed" /\ Issued(c) = << >>
            /\ err[c] = "identifyGroup" =>
                 pc[c] = "failed" /\ Issued(c) = <<"identifyGroup">> /\ sink[c] = << >>
            /\ pc[c] = "identify" =>
                 Len(sink[c]) = 1 /\ sink[c][1].call = "identifyGroup"
            /\ pc[c] = "finished" => Issued(c) = <<"identifyGroup", "identify">>)
  /\ [][\A c \in Callers :
          (GroupCall(c) /\ sink'[c] # sink[c] /\ sink'[c] # << >>) =>
            /\ Len(sink'[c]) = Len(sink[c]) + 1
            /\ SubSeq(sink'[c], 1, Len(sink[c])) = sink[c]
            /\ err[c] = "-"
            /\ pc[c] = (IF sink[c] = << >> THEN "identifyGroup" ELSE "identify")]_vars

\* A self-hosted tenant group call whose identifyGroup was rejected, after
\* the tenant id was minted and written.
C20_Witness ==
  /\ op["c1"] = "identifyTenantGroup"
  /\ SELF_HOSTED(proc["c1"])
  /\ pc["c1"] = "failed"
  /\ err["c1"] = "identifyGroup"
  /\ "db.put" \in io["c1"]
  /\ group["c1"].id = db[DeploymentOf(proc["c1"])][tenantId["c1"]]

====
